---- MODULE Spec2Model ----
(***************************************************************************)
(* Model of src/server.py, the Service_Anniversary_MCP_Server tool         *)
(* handlers: search, celebration_contributions, comment, invite.           *)
(*                                                                         *)
(* The handlers keep no store.  The only process state a handler reads is  *)
(* the uuid4() source and the wall clock.  uuid4() is modelled as a source *)
(* of fresh identifiers: the k-th value drawn by the process is the        *)
(* integer k.  A timestamp is kept as its offset in days from the "now"    *)
(* of the call that produced it.  A Python dict is a function whose DOMAIN *)
(* is the set of keys present, so that dict.get(key, default) is Get.  An  *)
(* f-string such as f"User{i}" is the pair <<"User", i>>.                  *)
(***************************************************************************)
EXTENDS Integers, Sequences, FiniteSets

\* ---------------------------------------------------------------- bounds
MaxCalls == 3          \* tool calls recorded in a run of Spec
MaxSearchCalls == 2    \* search calls recorded in a run of SpecSearch
MaxLimit == 2          \* largest pagination.limit a caller passes explicitly
MaxCursor == 1         \* largest small pagination.cursor a caller passes
MaxPageLimit == 3      \* largest limit the paging client walks with

\* ------------------------------------------------------ program constants
Total == 100           \* metadata["total"] in search
DefaultLimit == 5      \* pagination.get("limit", 5)
DefaultCursor == 0     \* pagination.get("cursor", 0)
BaseInvites == 5       \* "totalInvites": 5 + i
DaysPerStep == 7       \* timedelta(days=(i * 7))
ExternalUuid == 0      \* an identifier the caller brings, e.g. "123e4567-..."

VARIABLES
    uuidCtr,   \* number of uuid4() values the process has drawn so far
    log,       \* the calls made so far: <<[op, req, resp], ...>>
    pager      \* the paging client of SpecPage

vars == <<uuidCtr, log, pager>>

\* ------------------------------------------------------------ dict helper
EmptyDict == [k \in {} |-> 0]

Get(d, k, default) == IF k \in DOMAIN d THEN d[k] ELSE default

Range(n) == 1..(IF n > 0 THEN n ELSE 0)

\* ------------------------------------------------------------ mock helpers
\* _mock_person(i); u is the number of uuids drawn before the call.
MockPerson(i, u) ==
    [ rosterPersonId |-> u + 1,
      firstName      |-> <<"User", i>>,
      lastName       |-> "Example",
      emailAddress   |-> <<"user", i, "@example.com">>,
      avatarUrl      |-> "https://example.com/avatar.png",
      jobTitle       |-> "Software Engineer",
      isInMyTeam     |-> (i % 2 = 0) ]

\* A celebration whose invite count depends on what the process did before:
\* the count grows with the number of identifiers already drawn.
MockCelebrationCounting(i, u) ==
    [ celebrationId        |-> u + 1,
      milestoneName        |-> <<"Service Anniversary", i>>,
      date                 |-> [base |-> "now", plusDays |-> i * DaysPerStep],
      imageUrl             |-> "https://example.com/milestone.png",
      totalInvites         |-> BaseInvites + i + u,
      canContribute        |-> TRUE,
      hasContributed       |-> (i % 2 = 0),
      hasCelebratorThanked |-> (i % 3 = 0),
      allowPrivateComments |-> TRUE,
      thankYouMessage      |-> [comment |-> "Thanks team!", totalLikes |-> i],
      celebrator           |-> MockPerson(i, u + 1) ]

\* _mock_celebration(i); draws two uuids: celebrationId, then the celebrator's.
MockCelebration(i, u) ==
    [ celebrationId        |-> u + 1,
      milestoneName        |-> <<"Service Anniversary", i>>,
      date                 |-> [base |-> "now", plusDays |-> i * DaysPerStep],
      imageUrl             |-> "https://example.com/milestone.png",
      totalInvites         |-> BaseInvites + i,
      canContribute        |-> TRUE,
      hasContributed       |-> (i % 2 = 0),
      hasCelebratorThanked |-> (i % 3 = 0),
      allowPrivateComments |-> TRUE,
      thankYouMessage      |-> [comment |-> "Thanks team!", totalLikes |-> i],
      celebrator           |-> MockPerson(i, u + 1) ]

CelebrationUuids == 2

\* ------------------------------------------------------------------ search
\* int(v): the callers of this model pass JSON integers, which int() returns
\* unchanged
IntOf(v) == v

SearchLimit(query) ==
    IntOf(Get(Get(query, "pagination", EmptyDict), "limit", DefaultLimit))

SearchCursor(query) ==
    IntOf(Get(Get(query, "pagination", EmptyDict), "cursor", DefaultCursor))

\* search that fetches one record more than asked (range(limit + 1))
SearchOverfetch(query, u) ==
    LET limit  == SearchLimit(query)
        cursor == SearchCursor(query)
    IN  [ celebrations |->
            [k \in Range(limit + 1) |->
                MockCelebration((k - 1) + cursor + 1,
                                u + CelebrationUuids * (k - 1))],
          metadata |-> [total |-> Total, nextCursor |-> cursor + limit] ]

\* search that numbers the records from cursor instead of cursor + 1
SearchOffByOne(query, u) ==
    LET limit  == SearchLimit(query)
        cursor == SearchCursor(query)
    IN  [ celebrations |->
            [k \in Range(limit) |->
                MockCelebration((k - 1) + cursor,
                                u + CelebrationUuids * (k - 1))],
          metadata |-> [total |-> Total, nextCursor |-> cursor + limit] ]

Search(query, u) ==
    LET limit  == SearchLimit(query)
        cursor == SearchCursor(query)
    IN  [ celebrations |->
            [k \in Range(limit) |->
                MockCelebration((k - 1) + cursor + 1,
                                u + CelebrationUuids * (k - 1))],
          metadata |-> [total |-> Total, nextCursor |-> cursor + limit] ]

SearchUuids(query) == CelebrationUuids * Cardinality(Range(SearchLimit(query)))

\* ----------------------------------------------- celebration_contributions
\* Uuids drawn, in order: celebration (2), contributor, reply, comment, nextCursor.
\* celebration_contributions that counts the nested replies into totalComments
ContributionsCountingReplies(query, u) ==
    LET celebration == MockCelebration(1, u)
        contributor ==
            [ rosterPersonId |-> u + 3,
              firstName      |-> "John",
              lastName       |-> "Doe",
              emailAddress   |-> "john.doe@example.com",
              avatarUrl      |-> "https://example.com/john.png",
              jobTitle       |-> "Engineer",
              isCurrentUser  |-> FALSE ]
        replies ==
            << [ commentId   |-> u + 4,
                 isPrivate   |-> FALSE,
                 totalLikes  |-> 1,
                 comment     |-> "Nice work!",
                 contributor |-> contributor,
                 replies     |-> <<>> ] >>
        comments ==
            << [ commentId   |-> u + 5,
                 isPrivate   |-> FALSE,
                 totalLikes  |-> 5,
                 comment     |-> "Congratulations on your milestone!",
                 contributor |-> contributor,
                 replies     |-> replies ] >>
    IN  [ celebration |-> celebration,
          comments    |-> comments,
          metadata    |-> [totalComments |-> Len(comments) + Len(replies),
                           nextCursor |-> u + 6] ]

Contributions(query, u) ==
    LET celebration == MockCelebration(1, u)
        contributor ==
            [ rosterPersonId |-> u + 3,
              firstName      |-> "John",
              lastName       |-> "Doe",
              emailAddress   |-> "john.doe@example.com",
              avatarUrl      |-> "https://example.com/john.png",
              jobTitle       |-> "Engineer",
              isCurrentUser  |-> FALSE ]
        replies ==
            << [ commentId   |-> u + 4,
                 isPrivate   |-> FALSE,
                 totalLikes  |-> 1,
                 comment     |-> "Nice work!",
                 contributor |-> contributor,
                 replies     |-> <<>> ] >>
        comments ==
            << [ commentId   |-> u + 5,
                 isPrivate   |-> FALSE,
                 totalLikes  |-> 5,
                 comment     |-> "Congratulations on your milestone!",
                 contributor |-> contributor,
                 replies     |-> replies ] >>
    IN  [ celebration |-> celebration,
          comments    |-> comments,
          metadata    |-> [totalComments |-> Len(comments), nextCursor |-> u + 6] ]

ContributionsUuids == 6

\* ----------------------------------------------------------------- comment
\* Uuids drawn, in order: celebration (2), contributor, commentId.
Comment(query, u) ==
    LET celebration == MockCelebration(1, u)
        contributor ==
            [ rosterPersonId |-> u + 3,
              firstName      |-> "Madan",
              lastName       |-> "Shetty",
              emailAddress   |-> "madan.shetty@example.com",
              avatarUrl      |-> "https://example.com/avatar_madan.png",
              jobTitle       |-> "Software Engineer",
              isCurrentUser  |-> TRUE ]
        new_comment ==
            [ commentId   |-> u + 4,
              isPrivate   |-> Get(query, "isPrivate", FALSE),
              totalLikes  |-> 0,
              comment     |-> Get(query, "comment", ""),
              contributor |-> contributor ]
    IN  [ celebration |-> celebration, comment |-> new_comment ]

CommentUuids == 4

\* ------------------------------------------------------------------ invite
\* Uuids drawn, in order: celebration (2), the two suggested invitees.
Invite(query, u) ==
    LET celebration == MockCelebration(1, u)
        summary == [invitesSent |-> 2, alreadyInvited |-> 1]
        invited_contributors ==
            << [emailAddress |-> "jane.doe@example.com",
                firstName |-> "Jane", lastName |-> "Doe"],
               [emailAddress |-> "john.smith@example.com",
                firstName |-> "John", lastName |-> "Smith"] >>
        suggested_invitees ==
            << [rosterPersonId |-> u + 3, firstName |-> "Amit", lastName |-> "Kumar"],
               [rosterPersonId |-> u + 4, firstName |-> "Priya", lastName |-> "Sharma"] >>
    IN  [ celebration        |-> celebration,
          invitationSummary  |-> summary,
          invitedContributors |-> invited_contributors,
          suggestedInvitees  |-> suggested_invitees ]

InviteUuids == 4

\* ------------------------------------------------------- caller's inputs
\* The search and filters parts of a search query; search() reads neither.
SearchFilters ==
    { [ search  |-> [by |-> "email", identifier |-> "albert.sunild@gmail.com"],
        filters |-> [team |-> "all", timePeriod |-> "future"] ],
      [ search  |-> [by |-> "name", identifier |-> "Albert"],
        filters |-> [team |-> "my_team", timePeriod |-> "past"] ] }

WithPagination(f, p) ==
    [search |-> f.search, filters |-> f.filters, pagination |-> p]

\* pagination dicts: each key present or absent
Limits == (-1)..MaxLimit

Cursors == ((-1)..MaxCursor) \cup {Total - 1}

Paginations ==
    {EmptyDict}
        \cup {[limit |-> l] : l \in Limits}
        \cup {[cursor |-> c] : c \in Cursors}
        \cup {[limit |-> l, cursor |-> c] : l \in Limits, c \in Cursors}

SearchQueries == {WithPagination(f, p) : f \in SearchFilters, p \in Paginations}

\* the search queries of a run that mixes all tools: one explicit page, and a
\* query without the "pagination" key
MixedSearchQueries ==
    { [ search     |-> [by |-> "email", identifier |-> "albert.sunild@gmail.com"],
        filters    |-> [team |-> "all", timePeriod |-> "future"],
        pagination |-> [limit |-> 1, cursor |-> 0] ],
      [ search     |-> [by |-> "name", identifier |-> "Albert"] ] }

\* celebration ids a caller can name: one of its own, or one the last response
\* carried
LastCelebrationIds ==
    IF log = <<>> THEN {}
    ELSE LET r == log[Len(log)].resp
         IN  IF "celebration" \in DOMAIN r THEN {r.celebration.celebrationId}
             ELSE {r.celebrations[k].celebrationId : k \in DOMAIN r.celebrations}

CallerCelebrationIds == {ExternalUuid} \cup LastCelebrationIds

\* top-level comment ids the server has returned so far
KnownCommentIds ==
    UNION { {log[k].resp.comments[m].commentId : m \in DOMAIN log[k].resp.comments}
            : k \in {j \in DOMAIN log : log[j].op = "celebration_contributions"} }

CommentBodies ==
    { [comment |-> "Congratulations!", isPrivate |-> FALSE],
      [comment |-> "Well done!"] }

CommentQueries ==
    {[celebrationId |-> c, comment |-> b.comment, isPrivate |-> b.isPrivate] :
        c \in CallerCelebrationIds, b \in {x \in CommentBodies : "isPrivate" \in DOMAIN x}}
    \cup
    {[celebrationId |-> c, comment |-> b.comment] :
        c \in CallerCelebrationIds, b \in {x \in CommentBodies : "isPrivate" \notin DOMAIN x}}
    \cup
    {[celebrationId |-> c, commentId |-> p, comment |-> b.comment] :
        c \in CallerCelebrationIds, p \in KnownCommentIds, b \in CommentBodies}

RosterLists == { <<>>, <<[rosterPersonId |-> ExternalUuid]>> }

EmailLists ==
    { <<>>,
      <<[emailAddress |-> "a@x.com", firstName |-> "Amit", lastName |-> "Kumar"]>> }

InviteQueries ==
    {[celebrationId |-> c, byRosterPersonId |-> r, byEmailAddress |-> e] :
        c \in CallerCelebrationIds, r \in RosterLists, e \in EmailLists}

ContributionsQueries ==
    {[celebrationId |-> c, cursor |-> ExternalUuid] : c \in CallerCelebrationIds}

\* ------------------------------------------------------------------ actions
Init ==
    /\ uuidCtr = 0
    /\ log = <<>>
    /\ pager = [phase |-> "idle"]

Record(op, query, resp, drawn) ==
    /\ log' = Append(log, [op |-> op, req |-> query, resp |-> resp])
    /\ uuidCtr' = uuidCtr + drawn
    /\ UNCHANGED pager

SearchCall(query) ==
    Record("search", query, Search(query, uuidCtr), SearchUuids(query))

ContributionsCall(query) ==
    Record("celebration_contributions", query,
           Contributions(query, uuidCtr), ContributionsUuids)

CommentCall(query) ==
    Record("comment", query, Comment(query, uuidCtr), CommentUuids)

InviteCall(query) ==
    Record("invite", query, Invite(query, uuidCtr), InviteUuids)

\* Any mix of tool calls.
CanCall == Len(log) < MaxCalls

SearchStep == CanCall /\ \E q \in MixedSearchQueries : SearchCall(q)

ContributionsStep == CanCall /\ \E q \in ContributionsQueries : ContributionsCall(q)

CommentStep == CanCall /\ \E q \in CommentQueries : CommentCall(q)

InviteStep == CanCall /\ \E q \in InviteQueries : InviteCall(q)

Next ==
    \/ SearchStep
    \/ ContributionsStep
    \/ CommentStep
    \/ InviteStep

Spec == Init /\ [][Next]_vars

\* Search calls alone, over every shape of the pagination dict.
SearchOnlyStep ==
    /\ Len(log) < MaxSearchCalls
    /\ \E q \in SearchQueries : SearchCall(q)

NextSearch == SearchOnlyStep

SpecSearch == Init /\ [][NextSearch]_vars

\* ------------------------------------------------------- the paging client
\* A caller that walks the result set as the tool's contract describes: from
\* cursor 0, passing each nextCursor back, until nextCursor >= total.
PageQuery == WithPagination(pager.filter, [limit |-> pager.limit, cursor |-> pager.cursor])

InitPage ==
    /\ uuidCtr = 0
    /\ log = <<>>
    /\ \E f \in SearchFilters, l \in 1..MaxPageLimit :
          pager = [phase |-> "paging", filter |-> f, limit |-> l, cursor |-> 0,
                   total |-> 0, pages |-> 0, collected |-> <<>>]

PageStep ==
    /\ pager.phase = "paging"
    /\ LET r == Search(PageQuery, uuidCtr)
       IN  pager' = [pager EXCEPT
                        !.collected = @ \o r.celebrations,
                        !.pages = @ + 1,
                        !.cursor = r.metadata.nextCursor,
                        !.total = r.metadata.total,
                        !.phase = IF r.metadata.nextCursor >= r.metadata.total
                                  THEN "done" ELSE "paging"]
    /\ uuidCtr' = uuidCtr + SearchUuids(PageQuery)
    /\ UNCHANGED log

NextPage == PageStep

SpecPage == InitPage /\ [][NextPage]_vars

\* ================================================================ claims
Calls == DOMAIN log

SearchCalls == {k \in Calls : log[k].op = "search"}

IsSuccess(resp) == "error" \notin DOMAIN resp

CelebrationIds(resp) ==
    {resp.celebrations[k].celebrationId : k \in DOMAIN resp.celebrations}

MilestoneIndex(celebration) == celebration.milestoneName[2]

\* C1: a search with limit > 0 and cursor >= 0, whatever its search and filter
\* fields, returns at most limit celebrations, and on a non-final page
\* (cursor + limit < total) nextCursor is cursor + limit.
C1_PageSizeAndNextCursor ==
    \A k \in SearchCalls :
        LET limit  == SearchLimit(log[k].req)
            cursor == SearchCursor(log[k].req)
            resp   == log[k].resp
        IN  (limit > 0 /\ cursor >= 0) =>
                /\ IsSuccess(resp)
                /\ Len(resp.celebrations) <= limit
                /\ (cursor + limit < resp.metadata.total =>
                        resp.metadata.nextCursor = cursor + limit)

\* the spec's example, limit 2 from cursor 0, under both filter combinations
C1_Witness ==
    /\ Len(log) = 2
    /\ log[1].req.filters # log[2].req.filters
    /\ \A k \in {1, 2} :
          /\ log[k].req.pagination = [limit |-> 2, cursor |-> 0]
          /\ Len(log[k].resp.celebrations) = 2
          /\ log[k].resp.metadata.nextCursor = 2

\* C3: two identical search calls, nothing written in between, return the same
\* total and the same set of celebration ids.
C3_SearchIdempotent ==
    \A i, j \in SearchCalls :
        (i < j /\ log[i].req = log[j].req) =>
            /\ log[i].resp.metadata.total = log[j].resp.metadata.total
            /\ CelebrationIds(log[i].resp) = CelebrationIds(log[j].resp)

\* C4: a search whose limit is zero or negative fails with InvalidArgument and
\* never returns a success response.
C4_NonPositiveLimitRejected ==
    \A k \in SearchCalls :
        SearchLimit(log[k].req) <= 0 =>
            /\ ~IsSuccess(log[k].resp)
            /\ log[k].resp.error = "InvalidArgument"

\* C10: with cursor c and limit n >= 0 the page has n celebrations and the one
\* at position k (from 0) is milestone c + k + 1 with totalInvites 5 + c + k + 1;
\* a call that passes the previous nextCursor back continues with the next
\* milestone index, none repeated and none skipped.
C10_ConsecutiveMilestones ==
    /\ \A k \in SearchCalls :
          LET n == SearchLimit(log[k].req)
              c == SearchCursor(log[k].req)
              page == log[k].resp.celebrations
          IN  n >= 0 =>
                /\ Len(page) = n
                /\ \A p \in 1..n :
                      /\ page[p].milestoneName = <<"Service Anniversary", c + (p - 1) + 1>>
                      /\ page[p].totalInvites = 5 + c + (p - 1) + 1
    /\ \A i, j \in SearchCalls :
          LET a == log[i].resp.celebrations
              b == log[j].resp.celebrations
          IN  ( /\ j = i + 1
                /\ SearchCursor(log[j].req) = log[i].resp.metadata.nextCursor
                /\ a # <<>>
                /\ b # <<>> ) =>
                    MilestoneIndex(b[1]) = MilestoneIndex(a[Len(a)]) + 1

\* a page of one, then a page of two from the first's nextCursor
C10_Witness ==
    /\ Len(log) = 2
    /\ log[1].req.pagination = [limit |-> 1, cursor |-> 0]
    /\ SearchLimit(log[2].req) = 2
    /\ SearchCursor(log[2].req) = log[1].resp.metadata.nextCursor
    /\ MilestoneIndex(log[1].resp.celebrations[1]) = 1
    /\ MilestoneIndex(log[2].resp.celebrations[2]) = 3

\* C2: walking from cursor 0 by nextCursor until nextCursor >= total, with a
\* fixed filter and limit, collects exactly total celebrations, every id
\* distinct.
C2_PagingComplete ==
    pager.phase = "done" =>
        /\ Len(pager.collected) = pager.total
        /\ \A a, b \in DOMAIN pager.collected :
              a # b => pager.collected[a].celebrationId # pager.collected[b].celebrationId

\* ------------------------------------------------- claims about the mix
CallsOf(op) == {k \in Calls : log[k].op = op}

SameCelebration(i, j) == log[i].req.celebrationId = log[j].req.celebrationId

\* C5: the same single email invited twice on the same celebration, nothing
\* else in either request: the second summary is invitesSent 0, alreadyInvited 1.
C5_SecondInviteDeduplicated ==
    \A i, j \in CallsOf("invite") :
        ( /\ i < j
          /\ log[i].req = log[j].req
          /\ Len(Get(log[j].req, "byEmailAddress", <<>>)) = 1
          /\ Get(log[j].req, "byRosterPersonId", <<>>) = <<>> ) =>
              log[j].resp.invitationSummary = [invitesSent |-> 0, alreadyInvited |-> 1]

\* the invitesSent reported by the invite calls on celebration c among calls
\* lo..hi
RECURSIVE InvitesSentBetween(_, _, _)
InvitesSentBetween(c, lo, hi) ==
    IF lo > hi THEN 0
    ELSE InvitesSentBetween(c, lo, hi - 1)
         + (IF log[hi].op = "invite" /\ log[hi].req.celebrationId = c
            THEN log[hi].resp.invitationSummary.invitesSent ELSE 0)

\* C6: the totalInvites of a celebration seen after some invite calls is its
\* value seen before them plus the invitesSent those calls reported.
C6_InvitesAccounted ==
    \A i, j \in CallsOf("celebration_contributions") :
        (i < j /\ SameCelebration(i, j)) =>
            log[j].resp.celebration.totalInvites =
                log[i].resp.celebration.totalInvites
                + InvitesSentBetween(log[i].req.celebrationId, i + 1, j - 1)

\* the texts of the replies posted to parent p of celebration c before call k
RECURSIVE PostedReplies(_, _, _)
PostedReplies(c, p, k) ==
    IF k = 0 THEN <<>>
    ELSE PostedReplies(c, p, k - 1)
         \o (IF /\ log[k].op = "comment"
                /\ log[k].req.celebrationId = c
                /\ "commentId" \in DOMAIN log[k].req
                /\ log[k].req.commentId = p
             THEN <<log[k].req.comment>> ELSE <<>>)

ReplyTexts(comment) == [m \in DOMAIN comment.replies |-> comment.replies[m].comment]

\* s occurs in t, in order
RECURSIVE IsSubSeq(_, _)
IsSubSeq(s, t) ==
    IF s = <<>> THEN TRUE
    ELSE IF t = <<>> THEN FALSE
    ELSE IF Head(s) = Head(t) THEN IsSubSeq(Tail(s), Tail(t))
    ELSE IsSubSeq(s, Tail(t))

\* C7: after comment calls with one celebrationId and one parent commentId, a
\* celebration_contributions call for that celebration returns that parent
\* with every one of those replies, in the order posted.
C7_RepliesInPostedOrder ==
    \A k \in CallsOf("celebration_contributions") :
        \A p \in KnownCommentIds :
            LET posted == PostedReplies(log[k].req.celebrationId, p, k - 1)
                comments == log[k].resp.comments
            IN  posted # <<>> =>
                    \E m \in DOMAIN comments :
                        /\ comments[m].commentId = p
                        /\ IsSubSeq(posted, ReplyTexts(comments[m]))

\* C8: totalComments of a celebration_contributions response is the number of
\* top-level comments; the replies nested under them are not counted.
C8_TotalCommentsTopLevelOnly ==
    \A k \in CallsOf("celebration_contributions") :
        log[k].resp.metadata.totalComments = Len(log[k].resp.comments)

\* a response whose top-level comment carries a reply
C8_Witness ==
    \E k \in CallsOf("celebration_contributions") :
        /\ log[k].resp.comments # <<>>
        /\ log[k].resp.comments[1].replies # <<>>
        /\ log[k].resp.metadata.totalComments = 1

\* the part of a response that is neither an identifier nor a timestamp
PersonContent(person) == <<person.firstName, person.lastName, person.emailAddress>>

CelebrationContent(c) ==
    [ milestoneName        |-> c.milestoneName,
      totalInvites         |-> c.totalInvites,
      canContribute        |-> c.canContribute,
      hasContributed       |-> c.hasContributed,
      hasCelebratorThanked |-> c.hasCelebratorThanked,
      allowPrivateComments |-> c.allowPrivateComments,
      thankYouMessage      |-> c.thankYouMessage,
      celebrator           |-> PersonContent(c.celebrator) ]

CommentContent(c) ==
    [ comment    |-> c.comment,
      isPrivate  |-> c.isPrivate,
      totalLikes |-> c.totalLikes,
      replies    |-> ReplyTexts(c) ]

Content(op, resp) ==
    IF op = "search" THEN
        [ celebrations |-> [k \in DOMAIN resp.celebrations |->
                                CelebrationContent(resp.celebrations[k])],
          total        |-> resp.metadata.total,
          nextCursor   |-> resp.metadata.nextCursor ]
    ELSE IF op = "celebration_contributions" THEN
        [ celebration   |-> CelebrationContent(resp.celebration),
          comments      |-> [k \in DOMAIN resp.comments |-> CommentContent(resp.comments[k])],
          totalComments |-> resp.metadata.totalComments ]
    ELSE
        [ celebration         |-> CelebrationContent(resp.celebration),
          invitationSummary   |-> resp.invitationSummary,
          invitedContributors |-> resp.invitedContributors,
          suggestedInvitees   |-> [k \in DOMAIN resp.suggestedInvitees |->
                                    <<resp.suggestedInvitees[k].firstName,
                                      resp.suggestedInvitees[k].lastName>>] ]

\* what the tool answers to the query in a process that has served no call
FirstAnswer(op, query) ==
    IF op = "search" THEN Search(query, 0)
    ELSE IF op = "celebration_contributions" THEN Contributions(query, 0)
    ELSE Invite(query, 0)

Writes == {"comment", "invite"}

Reads == {"search", "celebration_contributions", "invite"}

\* C9: after any sequence of comment and invite calls, the next search,
\* celebration_contributions or invite response has the content it would have
\* had with no call before it.
C9_NoCallLeavesATrace ==
    \A k \in Calls :
        ( /\ log[k].op \in Reads
          /\ \A j \in 1..(k - 1) : log[j].op \in Writes ) =>
              Content(log[k].op, log[k].resp) =
                  Content(log[k].op, FirstAnswer(log[k].op, log[k].req))

\* a comment and an invite, then a read of the thread
C9_Witness ==
    /\ Len(log) = 3
    /\ log[1].op = "comment"
    /\ log[2].op = "invite"
    /\ log[3].op = "celebration_contributions"
    /\ log[3].resp.celebration.totalInvites = 6
    /\ log[3].resp.metadata.totalComments = 1

====
